---- MODULE Spec2Model ----
(***************************************************************************)
(* MiniGit (reduced): init, add <file>, commit <message>, restore <id>,    *)
(* index.  The repository directory, the staging index file, the commit    *)
(* records, the object store and the working tree are the state; every     *)
(* command of src/minigit.py is one action.                                *)
(***************************************************************************)
EXTENDS Integers, Sequences, FiniteSets, TLC

VARIABLES
    repo,       \* .minigit (with commits/ and objects/) is a directory
    index,      \* .minigit/index.json: whether the file is present, and its staged list
    commits,    \* .minigit/commits: commit id -> commit record (<id>.json)
    objects,    \* .minigit/objects: object name -> bytes of the blob
    wt,         \* working tree: file location -> bytes, or NoFile
    dirs,       \* working tree: the sub-directories that exist
    clock,      \* the UTC clock: advanced by every commit and every outside change
    out,        \* what the last command reported to its caller
    copies,     \* history: number of blobs copied into the object store so far
    consumed,   \* history: the staged list the last completed commit read
    snapshots,  \* history: <<id, path, bytes>> of every FileEntry a commit has recorded
    procs       \* the commit invocations in progress: the locals of cmd_commit, the
                \* statement each one is at ("idle" when it is not running) and
                \* whether it was killed there

vars == <<repo, index, commits, objects, wt, dirs, clock, out, copies, consumed, snapshots, procs>>

\* the counters and history variables no command but commit touches
hist == <<clock, copies, consumed, snapshots, procs>>

\* the durable state of the repository and of the working tree
disk == <<repo, index, commits, objects, wt, dirs>>

-----------------------------------------------------------------------------
(* Bounds of the model *)

MaxClock == 3       \* ticks of the clock (commits and outside changes) in one behaviour
MaxNamesClock == 2  \* the same, in the behaviours of SpecNames

(* Inputs *)

Contents == {"hello", "world"}

\* paths as the caller spells them, one component per element
SpelledPaths ==
    { <<"a">>, <<".", "a">>, <<"d", "a">>, <<"d", "..", "a">>, <<"b">> }

\* the file locations of the working tree and its one sub-directory
FileLocs == { <<"a">>, <<"d", "a">>, <<"b">> }
SubDirs  == { <<"d">> }

\* the file locations the user edits or deletes between commands
EditLocs == { <<"a">>, <<"d", "a">> }

\* the values uuid.uuid4().hex[:12] can take
CommitIds == {"c1", "c2"}

Messages == {"first"}

\* the invocations of commit that can run at the same time
Procs == {1, 2}

\* the locals of an invocation of commit that is not running
IdleProc ==
    [pc |-> "idle", killed |-> FALSE,
     commit_id |-> "-", timestamp |-> 0, message |-> "-",
     staged |-> <<>>, todo |-> <<>>, files |-> <<>>, seen |-> <<>>, object_name |-> "-"]

NoFile  == "<absent>"
NoIndex == [present |-> FALSE, staged |-> <<>>]
Nowhere == <<"<unresolved>">>

-----------------------------------------------------------------------------
(* Pure helpers *)

Front(s) == SubSeq(s, 1, Len(s) - 1)

\* os.path.normpath on a relative path: drops "" and ".", folds "x/.."
RECURSIVE NormComps(_, _)
NormComps(comps, new_comps) ==
    IF comps = <<>> THEN new_comps
    ELSE LET comp == Head(comps) IN
         IF comp \in {"", "."} THEN NormComps(Tail(comps), new_comps)
         ELSE IF \/ comp # ".."
                 \/ new_comps = <<>>
                 \/ (new_comps # <<>> /\ new_comps[Len(new_comps)] = "..")
              THEN NormComps(Tail(comps), Append(new_comps, comp))
              ELSE NormComps(Tail(comps), Front(new_comps))

\* mutant: the path is stored as the caller spelled it
normpath_raw(path) == path

normpath(path) ==
    LET r == NormComps(path, <<>>) IN IF r = <<>> THEN <<".">> ELSE r

\* os.path.dirname of a relative path
dirname(path) == Front(path)

\* os.path.basename
basename(path) == path[Len(path)]

\* mutant: the read loop ends at once, every file hashes as the empty input
sha1_nothing_read(bytes) == "da39a3ee"

\* the SHA-1 digests of the model's contents (first 8 hex digits)
sha1(bytes) ==
    CASE bytes = "hello" -> "aaf4c61d"
      [] bytes = "world" -> "7c211433"

\* mutant: the object is named by the fingerprint alone
ObjectName_sha(sha, base_name) == sha

\* f"{sha}_{base_name}"
ObjectName(sha, base_name) == sha \o "_" \o base_name

\* the file system's own resolution of a relative path from the current
\* directory: every prefix it walks through must be an existing directory
RECURSIVE Walk(_, _, _)
Walk(path, cur, ds) ==
    IF path = <<>> THEN cur
    ELSE IF cur # <<>> /\ cur \notin ds THEN Nowhere
    ELSE LET comp == Head(path) IN
         IF comp \in {"", "."} THEN Walk(Tail(path), cur, ds)
         ELSE IF comp = ".."
              THEN IF cur = <<>> THEN Nowhere ELSE Walk(Tail(path), Front(cur), ds)
              ELSE Walk(Tail(path), Append(cur, comp), ds)

\* os.path.exists(path) for a path that names a file location
path_exists(path, tree, ds) ==
    LET loc == Walk(path, <<>>, ds) IN
    loc \in FileLocs /\ tree[loc] # NoFile

\* the bytes open(path, "rb") reads
read_file(path, tree, ds) == tree[Walk(path, <<>>, ds)]

\* hash_file_bytes(path)
hash_file_bytes(path, tree, ds) == sha1(read_file(path, tree, ds))

\* mutant: the repository check lets every command through
ensure_repo_skip == TRUE

\* ensure_repo(): TRUE when the command may proceed
ensure_repo == repo

\* read_index(): a missing index file reads as an empty staging list
read_index == IF ~index.present THEN [staged |-> <<>>] ELSE [staged |-> index.staged]

\* write_index(data)
write_index(data) == index' = [present |-> TRUE, staged |-> data.staged]

\* what a command prints or raises: its outcome and the count it names
Report(status, n) == [status |-> status, n |-> n]

-----------------------------------------------------------------------------
(* Commands *)

Init ==
    /\ repo = FALSE
    /\ index = NoIndex
    /\ commits = <<>>
    /\ objects = <<>>
    /\ wt = [loc \in FileLocs |-> IF loc = <<"a">> THEN "hello" ELSE NoFile]
    /\ dirs = {}
    /\ clock = 0
    /\ out = Report("none", 0)
    /\ copies = 0
    /\ consumed = <<>>
    /\ snapshots = {}
    /\ procs = [p \in Procs |-> IdleProc]

\* mutant: init rewrites index.json even when the file exists
cmd_init_overwrite ==
    /\ repo' = TRUE
    /\ write_index([staged |-> <<>>])
    /\ out' = Report("Initialized", 0)
    /\ UNCHANGED <<commits, objects, wt, dirs, hist>>

cmd_init ==
    /\ repo' = TRUE
    /\ IF ~index.present THEN write_index([staged |-> <<>>]) ELSE UNCHANGED index
    /\ out' = Report("Initialized", 0)
    /\ UNCHANGED <<commits, objects, wt, dirs, hist>>

\* mutant: the old entry for the path is dropped before the existence check
cmd_add_dropfirst(path) ==
    IF ~ensure_repo
    THEN /\ out' = Report("NoRepo", 0)
         /\ UNCHANGED <<disk, hist>>
    ELSE LET rel_path == normpath(path)
             idx      == read_index
             staged   == SelectSeq(idx.staged, LAMBDA s : s.path # rel_path)
         IN  IF ~path_exists(path, wt, dirs)
             THEN /\ write_index([idx EXCEPT !.staged = staged])
                  /\ out' = Report("FileNotFound", 0)
                  /\ UNCHANGED <<repo, commits, objects, wt, dirs, hist>>
             ELSE /\ write_index([idx EXCEPT !.staged =
                         Append(staged, [path |-> rel_path,
                                         sha |-> hash_file_bytes(rel_path, wt, dirs)])])
                  /\ out' = Report("Staged", 0)
                  /\ UNCHANGED <<repo, commits, objects, wt, dirs, hist>>

cmd_add(path) ==
    IF ~ensure_repo
    THEN /\ out' = Report("NoRepo", 0)
         /\ UNCHANGED <<disk, hist>>
    ELSE IF ~path_exists(path, wt, dirs)
    THEN /\ out' = Report("FileNotFound", 0)
         /\ UNCHANGED <<disk, hist>>
    ELSE LET rel_path == normpath(path)
             idx      == read_index
             staged   == SelectSeq(idx.staged, LAMBDA s : s.path # rel_path)
             sha      == hash_file_bytes(rel_path, wt, dirs)
         IN  /\ write_index([idx EXCEPT !.staged =
                                Append(staged, [path |-> rel_path, sha |-> sha])])
             /\ out' = Report("Staged", 0)
             /\ UNCHANGED <<repo, commits, objects, wt, dirs, hist>>

\* mutant: the record is built without the blob being copied
put_object_skip(objs, object_name, bytes) == objs

\* the object store after "if not os.path.exists(object_path): shutil.copy2(...)"
put_object(objs, object_name, bytes) ==
    IF object_name \in DOMAIN objs THEN objs ELSE (object_name :> bytes) @@ objs

\* mutant: the exists-check is dropped, the blob is copied every time
put_copies_always(objs, object_name) == 1

\* 1 when that statement copies, 0 when it does not
put_copies(objs, object_name) ==
    IF object_name \in DOMAIN objs THEN 0 ELSE 1

\* mutant: the fingerprint kept in the staging entry is reused
commit_entry_stale(entry, acc) ==
    LET path == entry.path IN
    IF ~path_exists(path, wt, dirs)
    THEN acc
    ELSE LET sha         == entry.sha
             base_name   == basename(path)
             object_name == ObjectName(sha, base_name)
         IN  [objects |-> put_object(acc.objects, object_name, read_file(path, wt, dirs)),
              files   |-> Append(acc.files,
                                 [path |-> path, object |-> object_name, sha |-> sha]),
              ncopy   |-> acc.ncopy + put_copies(acc.objects, object_name)]

\* mutant: an entry whose file has vanished is recorded from its staged data
commit_entry_keep(entry, acc) ==
    LET path == entry.path IN
    IF ~path_exists(path, wt, dirs)
    THEN [acc EXCEPT !.files =
            Append(acc.files, [path |-> path,
                               object |-> ObjectName(entry.sha, basename(path)),
                               sha |-> entry.sha])]
    ELSE LET sha         == hash_file_bytes(path, wt, dirs)
             base_name   == basename(path)
             object_name == ObjectName(sha, base_name)
         IN  [objects |-> put_object(acc.objects, object_name, read_file(path, wt, dirs)),
              files   |-> Append(acc.files,
                                 [path |-> path, object |-> object_name, sha |-> sha]),
              ncopy   |-> acc.ncopy + put_copies(acc.objects, object_name)]

\* one iteration of the loop of cmd_commit; acc holds the object store, the
\* files_metadata list and the number of copies made so far
commit_entry(entry, acc) ==
    LET path == entry.path IN
    IF ~path_exists(path, wt, dirs)
    THEN acc
    ELSE LET sha         == hash_file_bytes(path, wt, dirs)
             base_name   == basename(path)
             object_name == ObjectName(sha, base_name)
         IN  [objects |-> put_object(acc.objects, object_name, read_file(path, wt, dirs)),
              files   |-> Append(acc.files,
                                 [path |-> path, object |-> object_name, sha |-> sha]),
              ncopy   |-> acc.ncopy + put_copies(acc.objects, object_name)]

RECURSIVE commit_loop(_, _)
commit_loop(staged, acc) ==
    IF staged = <<>> THEN acc
    ELSE commit_loop(Tail(staged), commit_entry(Head(staged), acc))

\* mutant: staged entries whose files have all vanished count as nothing staged
nothing_staged_vanished(staged) ==
    SelectSeq(staged, LAMBDA e : path_exists(e.path, wt, dirs)) = <<>>

\* mutant: the empty-staging guard never fires
nothing_staged_never(staged) == FALSE

\* "if not staged"
nothing_staged(staged) == staged = <<>>

\* open(commit_file, "w") + json.dump: the record stored under <commit_id>.json
write_commit(log, commit_id, commit_obj) ==
    [ c \in DOMAIN log \cup {commit_id} |->
        IF c = commit_id THEN commit_obj ELSE log[c] ]

\* commit_id is the value uuid4 produced for this invocation
cmd_commit(message, commit_id) ==
    IF ~ensure_repo
    THEN /\ out' = Report("NoRepo", 0)
         /\ UNCHANGED <<disk, hist>>
    ELSE IF nothing_staged(read_index.staged)
    THEN /\ out' = Report("EmptyStaging", 0)
         /\ UNCHANGED <<disk, hist>>
    ELSE /\ clock < MaxClock
         /\ LET timestamp  == clock + 1
                done       == commit_loop(read_index.staged,
                                          [objects |-> objects, files |-> <<>>, ncopy |-> 0])
                commit_obj == [id |-> commit_id, timestamp |-> timestamp,
                               message |-> message, files |-> done.files]
            IN  /\ clock' = timestamp
                /\ objects' = done.objects
                /\ copies' = copies + done.ncopy
                /\ consumed' = read_index.staged
                /\ commits' = write_commit(commits, commit_id, commit_obj)
                /\ write_index([staged |-> <<>>])
                /\ out' = Report("Committed", Len(done.files))
                /\ snapshots' = snapshots \cup
                       { <<commit_id, done.files[i].path,
                           read_file(done.files[i].path, wt, dirs)>> :
                         i \in 1..Len(done.files) }
                /\ UNCHANGED <<repo, wt, dirs, procs>>

\* mutant: a missing object is counted as restored
restore_entry_countall(fmeta, acc) ==
    LET obj_name    == fmeta.object
        target_path == fmeta.path
        target_dir  == dirname(target_path)
    IN  IF obj_name \notin DOMAIN objects
        THEN [acc EXCEPT !.restored = acc.restored + 1]
        ELSE [wt       |-> [acc.wt EXCEPT ![target_path] = objects[obj_name]],
              dirs     |-> IF target_dir # <<>> /\ target_dir \notin acc.dirs
                           THEN acc.dirs \cup {target_dir} ELSE acc.dirs,
              restored |-> acc.restored + 1]

\* one iteration of the loop of cmd_restore; acc holds the working tree, its
\* directories and the number of files restored so far
restore_entry(fmeta, acc) ==
    LET obj_name    == fmeta.object
        target_path == fmeta.path
        target_dir  == dirname(target_path)
    IN  IF obj_name \notin DOMAIN objects
        THEN acc
        ELSE [wt       |-> [acc.wt EXCEPT ![target_path] = objects[obj_name]],
              dirs     |-> IF target_dir # <<>> /\ target_dir \notin acc.dirs
                           THEN acc.dirs \cup {target_dir} ELSE acc.dirs,
              restored |-> acc.restored + 1]

RECURSIVE restore_loop(_, _)
restore_loop(files, acc) ==
    IF files = <<>> THEN acc
    ELSE restore_loop(Tail(files), restore_entry(Head(files), acc))

\* mutant: the blob is moved out of the store instead of copied
cmd_restore_move(commit_id) ==
    IF ~ensure_repo
    THEN /\ out' = Report("NoRepo", 0)
         /\ UNCHANGED <<disk, hist>>
    ELSE IF commit_id \notin DOMAIN commits
    THEN /\ out' = Report("CommitNotFound", 0)
         /\ UNCHANGED <<disk, hist>>
    ELSE LET files == commits[commit_id].files
             done  == restore_loop(files, [wt |-> wt, dirs |-> dirs, restored |-> 0])
             moved == { files[i].object : i \in 1..Len(files) }
         IN  /\ wt' = done.wt
             /\ dirs' = done.dirs
             /\ objects' = [ o \in DOMAIN objects \ moved |-> objects[o] ]
             /\ out' = Report("Restored", done.restored)
             /\ UNCHANGED <<repo, index, commits, hist>>

\* mutant: files the commit does not list are removed from the working tree
cmd_restore_sync(commit_id) ==
    IF ~ensure_repo
    THEN /\ out' = Report("NoRepo", 0)
         /\ UNCHANGED <<disk, hist>>
    ELSE IF commit_id \notin DOMAIN commits
    THEN /\ out' = Report("CommitNotFound", 0)
         /\ UNCHANGED <<disk, hist>>
    ELSE LET files  == commits[commit_id].files
             done   == restore_loop(files, [wt |-> wt, dirs |-> dirs, restored |-> 0])
             listed == { files[i].path : i \in 1..Len(files) }
         IN  /\ wt' = [ loc \in FileLocs |->
                          IF loc \in listed THEN done.wt[loc] ELSE NoFile ]
             /\ dirs' = done.dirs
             /\ out' = Report("Restored", done.restored)
             /\ UNCHANGED <<repo, index, commits, objects, hist>>

cmd_restore(commit_id) ==
    IF ~ensure_repo
    THEN /\ out' = Report("NoRepo", 0)
         /\ UNCHANGED <<disk, hist>>
    ELSE IF commit_id \notin DOMAIN commits
    THEN /\ out' = Report("CommitNotFound", 0)
         /\ UNCHANGED <<disk, hist>>
    ELSE LET done == restore_loop(commits[commit_id].files,
                                 [wt |-> wt, dirs |-> dirs, restored |-> 0])
         IN  /\ wt' = done.wt
             /\ dirs' = done.dirs
             /\ out' = Report("Restored", done.restored)
             /\ UNCHANGED <<repo, index, commits, objects, hist>>

cmd_show_index ==
    IF ~ensure_repo
    THEN /\ out' = Report("NoRepo", 0)
         /\ UNCHANGED <<disk, hist>>
    ELSE /\ out' = Report("Listed", Len(read_index.staged))
         /\ UNCHANGED <<disk, hist>>

-----------------------------------------------------------------------------
(* The user's own changes to the working tree, between commands *)

EditFile(loc, bytes) ==
    /\ clock < MaxClock
    /\ wt[loc] # bytes
    /\ wt' = [wt EXCEPT ![loc] = bytes]
    /\ dirs' = IF dirname(loc) # <<>> THEN dirs \cup {dirname(loc)} ELSE dirs
    /\ clock' = clock + 1
    /\ UNCHANGED <<repo, index, commits, objects, out, copies, consumed, snapshots, procs>>

DeleteFile(loc) ==
    /\ clock < MaxClock
    /\ wt[loc] # NoFile
    /\ wt' = [wt EXCEPT ![loc] = NoFile]
    /\ clock' = clock + 1
    /\ UNCHANGED <<repo, index, commits, objects, dirs, out, copies, consumed, snapshots, procs>>

\* a blob removed from .minigit/objects from outside the program
DeleteObject(object_name) ==
    /\ clock < MaxClock
    /\ object_name \in DOMAIN objects
    /\ objects' = [ o \in DOMAIN objects \ {object_name} |-> objects[o] ]
    /\ clock' = clock + 1
    /\ UNCHANGED <<repo, index, commits, wt, dirs, out, copies, consumed, snapshots, procs>>

-----------------------------------------------------------------------------
(* cmd_commit statement by statement, for invocations that overlap or are
   killed.  The statements that only read the working tree (lines 91-97) are
   taken together with the existence test of line 100: no other invocation
   of commit writes to the working tree. *)

\* mutant: the index is cleared before the record is written
next_pc_swapped(pc) ==
    CASE pc = "loop"   -> "clear"
      [] pc = "clear"  -> "record"
      [] pc = "record" -> "print"

\* the statement that follows the loop, the record write and the index clear
next_pc(pc) ==
    CASE pc = "loop"   -> "record"
      [] pc = "record" -> "clear"
      [] pc = "clear"  -> "print"

\* the invocation can take its next statement
Running(p) == procs[p].pc # "idle" /\ ~procs[p].killed

\* a new invocation can start
Free(p) == procs[p].pc = "idle" \/ procs[p].killed

\* lines 77-88: up to the start of the loop
c_begin(p, message, commit_id) ==
    /\ Free(p)
    /\ IF ~ensure_repo
       THEN /\ out' = Report("NoRepo", 0)
            /\ UNCHANGED <<disk, hist>>
       ELSE IF nothing_staged(read_index.staged)
       THEN /\ out' = Report("EmptyStaging", 0)
            /\ UNCHANGED <<disk, hist>>
       ELSE /\ clock < MaxClock
            /\ clock' = clock + 1
            /\ procs' = [procs EXCEPT ![p] =
                  [IdleProc EXCEPT !.pc = "loop", !.commit_id = commit_id,
                                   !.timestamp = clock + 1, !.message = message,
                                   !.staged = read_index.staged,
                                   !.todo = read_index.staged]]
            /\ UNCHANGED <<disk, out, copies, consumed, snapshots>>

\* lines 89-100 and 102-106: one staged entry up to the existence test of its
\* object; an entry whose object exists is recorded without a copy
c_check(p) ==
    LET me == procs[p] IN
    /\ Running(p) /\ me.pc = "loop" /\ me.todo # <<>>
    /\ LET path == Head(me.todo).path IN
       IF ~path_exists(path, wt, dirs)
       THEN procs' = [procs EXCEPT ![p].todo = Tail(me.todo)]
       ELSE LET sha         == hash_file_bytes(path, wt, dirs)
                object_name == ObjectName(sha, basename(path))
            IN  IF object_name \in DOMAIN objects
                THEN procs' = [procs EXCEPT
                        ![p].todo = Tail(me.todo),
                        ![p].files = Append(me.files, [path |-> path,
                                            object |-> object_name, sha |-> sha]),
                        ![p].seen = Append(me.seen, read_file(path, wt, dirs))]
                ELSE procs' = [procs EXCEPT ![p].pc = "copy",
                                            ![p].object_name = object_name]
    /\ UNCHANGED <<disk, clock, out, copies, consumed, snapshots>>

\* mutant: the destination is written in append mode
copy_write_append(objs, object_name, bytes) ==
    [objs EXCEPT ![object_name] = objs[object_name] \o bytes]

\* shutil.copy2, second half: the source bytes are written to the destination
copy_write(objs, object_name, bytes) ==
    [objs EXCEPT ![object_name] = bytes]

\* shutil.copy2, first half: the destination is created, or truncated
copy_open(objs, object_name) ==
    [ o \in DOMAIN objs \cup {object_name} |->
        IF o = object_name THEN "" ELSE objs[o] ]

\* line 101, opening the destination
c_copy_open(p) ==
    LET me == procs[p] IN
    /\ Running(p) /\ me.pc = "copy"
    /\ objects' = copy_open(objects, me.object_name)
    /\ copies' = copies + 1
    /\ procs' = [procs EXCEPT ![p].pc = "write"]
    /\ UNCHANGED <<repo, index, commits, wt, dirs, clock, out, consumed, snapshots>>

\* line 101, writing the bytes, and lines 102-106
c_copy_write(p) ==
    LET me   == procs[p]
        path == Head(me.todo).path
    IN  /\ Running(p) /\ me.pc = "write"
        /\ objects' = copy_write(objects, me.object_name, read_file(path, wt, dirs))
        /\ procs' = [procs EXCEPT
              ![p].pc = "loop",
              ![p].todo = Tail(me.todo),
              ![p].files = Append(me.files, [path |-> path, object |-> me.object_name,
                                  sha |-> hash_file_bytes(path, wt, dirs)]),
              ![p].seen = Append(me.seen, read_file(path, wt, dirs)),
              ![p].object_name = "-"]
        /\ UNCHANGED <<repo, index, commits, wt, dirs, clock, out, copies, consumed, snapshots>>

\* the loop has run through the staged list
c_loop_end(p) ==
    /\ Running(p) /\ procs[p].pc = "loop" /\ procs[p].todo = <<>>
    /\ procs' = [procs EXCEPT ![p].pc = next_pc("loop")]
    /\ UNCHANGED <<disk, clock, out, copies, consumed, snapshots>>

\* lines 108-117: the record is written
c_record(p) ==
    LET me == procs[p] IN
    /\ Running(p) /\ me.pc = "record"
    /\ commits' = write_commit(commits, me.commit_id,
                     [id |-> me.commit_id, timestamp |-> me.timestamp,
                      message |-> me.message, files |-> me.files])
    /\ snapshots' = snapshots \cup
          { <<me.commit_id, me.files[i].path, me.seen[i]>> : i \in 1..Len(me.files) }
    /\ procs' = [procs EXCEPT ![p].pc = next_pc("record")]
    /\ UNCHANGED <<repo, index, objects, wt, dirs, clock, out, copies, consumed>>

\* line 120: the index is cleared
c_clear(p) ==
    /\ Running(p) /\ procs[p].pc = "clear"
    /\ write_index([staged |-> <<>>])
    /\ procs' = [procs EXCEPT ![p].pc = next_pc("clear")]
    /\ UNCHANGED <<repo, commits, objects, wt, dirs, clock, out, copies, consumed, snapshots>>

\* line 121: the commit is reported and the invocation returns
c_print(p) ==
    /\ Running(p) /\ procs[p].pc = "print"
    /\ out' = Report("Committed", Len(procs[p].files))
    /\ consumed' = procs[p].staged
    /\ procs' = [procs EXCEPT ![p] = IdleProc]
    /\ UNCHANGED <<disk, clock, copies, snapshots>>

\* the invocation is killed where it stands, or the machine stops
Crash(p) ==
    /\ Running(p)
    /\ procs' = [procs EXCEPT ![p].killed = TRUE]
    /\ UNCHANGED <<disk, clock, out, copies, consumed, snapshots>>

CommitStep(p) ==
    \/ \E message \in Messages, commit_id \in CommitIds : c_begin(p, message, commit_id)
    \/ c_check(p)
    \/ c_copy_open(p)
    \/ c_copy_write(p)
    \/ c_loop_end(p)
    \/ c_record(p)
    \/ c_clear(p)
    \/ c_print(p)

\* no invocation of commit is running
Quiet == \A p \in Procs : Free(p)

-----------------------------------------------------------------------------
(* Specifications *)

Commands ==
    \/ cmd_init
    \/ \E path \in SpelledPaths : cmd_add(path)
    \/ \E message \in Messages, commit_id \in CommitIds : cmd_commit(message, commit_id)
    \/ \E commit_id \in CommitIds : cmd_restore(commit_id)
    \/ cmd_show_index

User ==
    \/ \E loc \in EditLocs, bytes \in Contents : EditFile(loc, bytes)
    \/ \E loc \in EditLocs : DeleteFile(loc)

Next == Commands \/ User

\* the program's commands and the user's edits of the working tree
Spec == Init /\ [][Next]_vars

NextTamper == Next \/ \E object_name \in DOMAIN objects : DeleteObject(object_name)

\* as Spec, and blobs may also disappear from the object store
SpecTamper == Init /\ [][NextTamper]_vars

\* an initialized repository in a working tree where a, b and d/a all exist
InitNames ==
    /\ repo = TRUE
    /\ index = [present |-> TRUE, staged |-> <<>>]
    /\ commits = <<>>
    /\ objects = <<>>
    /\ wt \in { f \in [FileLocs -> Contents] : f[<<"a">>] = "hello" /\ f[<<"b">>] = "hello" }
    /\ dirs = SubDirs
    /\ clock = 0
    /\ out = Report("none", 0)
    /\ copies = 0
    /\ consumed = <<>>
    /\ snapshots = {}
    /\ procs = [p \in Procs |-> IdleProc]

\* add and commit alone, on that working tree
NextNames ==
    /\ \/ \E path \in SpelledPaths : cmd_add(path)
       \/ \E message \in Messages, commit_id \in CommitIds : cmd_commit(message, commit_id)
    /\ clock' <= MaxNamesClock

SpecNames == InitNames /\ [][NextNames]_vars

\* between commits: init, add and the user's edits
Between ==
    /\ Quiet
    /\ \/ cmd_init
       \/ \E path \in SpelledPaths : cmd_add(path)
       \/ User

NextCrash == Between \/ CommitStep(1) \/ Crash(1)

\* one commit at a time, statement by statement, which may be killed anywhere
SpecCrash == Init /\ [][NextCrash]_vars

NextConc == Between \/ \E p \in Procs : CommitStep(p)

\* two commits that overlap, statement by statement
SpecConc == Init /\ [][NextConc]_vars

TypeOK ==
    /\ repo \in BOOLEAN
    /\ clock \in 0..MaxClock
    /\ DOMAIN commits \subseteq CommitIds
    /\ \A l \in FileLocs : wt[l] \in Contents \cup {NoFile}
    /\ dirs \subseteq SubDirs

-----------------------------------------------------------------------------
(* Properties *)

AnyCommit == \E message \in Messages, commit_id \in CommitIds : cmd_commit(message, commit_id)
AnyAdd    == \E path \in SpelledPaths : cmd_add(path)
AnyRestore == \E commit_id \in CommitIds : cmd_restore(commit_id)

\* the staged entries commit turns into FileEntries: those whose path exists
Survivors(staged) == SelectSeq(staged, LAMBDA e : path_exists(e.path, wt, dirs))

\* C1: round trip.  Every FileEntry ever recorded under commit id c, for
\* path P with bytes F, is what restore(c) puts at P, whatever ran in between.
C1_RoundTrip ==
    [][\A c \in CommitIds :
         (cmd_restore(c) /\ repo /\ c \in DOMAIN commits)
           => \A s \in snapshots : s[1] = c => wt'[s[2]] = s[3]]_vars

\* C2: idempotent dedup.  A commit copies a blob exactly for the object names
\* the store did not hold, leaves every stored object as it was, and when all
\* the names it needs are already stored it copies nothing and the store (and
\* so the number of objects) is unchanged; stage and restore never write to
\* the store.
C2_IdempotentDedup ==
    [][/\ (AnyAdd \/ AnyRestore) => UNCHANGED <<objects, copies>>
       /\ AnyCommit =>
            /\ copies' - copies = Cardinality(DOMAIN objects' \ DOMAIN objects)
            /\ \A o \in DOMAIN objects : o \in DOMAIN objects' /\ objects'[o] = objects[o]
            /\ LET kept   == Survivors(read_index.staged)
                   needed == { ObjectName(hash_file_bytes(kept[i].path, wt, dirs),
                                          basename(kept[i].path)) : i \in 1..Len(kept) }
               IN  needed \subseteq DOMAIN objects =>
                     (objects' = objects /\ copies' = copies)]_vars

\* two commit records list the same file and the store holds its one object,
\* copied once
C2_Witness ==
    /\ out.status = "Committed" /\ out.n = 1
    /\ \E c1, c2 \in DOMAIN commits :
         /\ c1 # c2
         /\ commits[c1].files = commits[c2].files
         /\ Len(commits[c1].files) = 1
    /\ copies = 1
    /\ Cardinality(DOMAIN objects) = 1

StagedPaths(staged) == { staged[i].path : i \in 1..Len(staged) }

\* C3: the staging index holds at most one entry per normalized path, and a
\* successful stage of P (however P is spelled) leaves exactly one entry for
\* normpath(P), carrying the fingerprint of P's content at that call, and
\* keeps the other entries.
C3_StageReplaces ==
    /\ [](\A i, j \in 1..Len(index.staged) :
            i # j => normpath(index.staged[i].path) # normpath(index.staged[j].path))
    /\ [][\A p \in SpelledPaths :
            (cmd_add(p) /\ out'.status = "Staged") =>
               LET key == NormComps(p, <<>>)
                   hit == { i \in 1..Len(index'.staged) :
                              NormComps(index'.staged[i].path, <<>>) = key }
               IN  /\ Cardinality(hit) = 1
                   /\ \A i \in hit : index'.staged[i].sha = sha1(read_file(p, wt, dirs))
                   /\ \A q \in StagedPaths(index.staged) :
                        NormComps(q, <<>>) # key => q \in StagedPaths(index'.staged)]_vars

\* the one entry for a holds the fingerprint of the edited content, next to
\* an entry for another path
C3_Witness ==
    /\ out.status = "Staged"
    /\ wt[<<"a">>] = "world"
    /\ Len(index.staged) = 2
    /\ index.staged[2] = [path |-> <<"a">>, sha |-> sha1("world")]

\* C4: a commit record, once written, is never changed, replaced or removed.
C4_CommitLogImmutable ==
    [][\A c \in DOMAIN commits : c \in DOMAIN commits' /\ commits'[c] = commits[c]]_vars

\* C5: every FileEntry of every commit record names an object present in
\* the object store.
C5_ReferentialIntegrity ==
    \A c \in DOMAIN commits :
      \A i \in 1..Len(commits[c].files) : commits[c].files[i].object \in DOMAIN objects

\* two records exist, one of them with two FileEntries
C5_Witness ==
    /\ Cardinality(DOMAIN commits) = 2
    /\ \E c \in DOMAIN commits : Len(commits[c].files) = 2

\* C6: a commit invoked on a non-empty staging index adds exactly one commit
\* record and leaves the staging index empty.
C6_CommitConsumesStaging ==
    [][(AnyCommit /\ repo /\ read_index.staged # <<>>) =>
         /\ Cardinality(DOMAIN commits') = Cardinality(DOMAIN commits) + 1
         /\ index'.present /\ index'.staged = <<>>]_vars

\* C7: commit on an empty staging index reports EmptyStaging and changes
\* neither the commit log, the object store, the staging index nor the
\* working tree.
C7_EmptyCommitGuard ==
    [][(AnyCommit /\ repo /\ read_index.staged = <<>>) =>
         /\ out'.status = "EmptyStaging"
         /\ UNCHANGED <<repo, index, commits, objects, wt, dirs, copies, snapshots>>]_vars

\* a commit was made, and the commit issued after it found nothing staged
C7_Witness ==
    /\ out.status = "EmptyStaging"
    /\ DOMAIN commits # {}
    /\ index.staged = <<>>

\* the FileEntries of a record whose object is in the store
Restorable(files) == { i \in 1..Len(files) : files[i].object \in DOMAIN objects }

\* C8: restore of an existing commit always completes; it writes exactly the
\* FileEntries whose object is present, each with its object's bytes, leaves
\* every other file alone, and reports the number of entries it wrote.
C8_PartialRestore ==
    [][\A c \in CommitIds :
         (cmd_restore(c) /\ repo /\ c \in DOMAIN commits) =>
            LET files == commits[c].files
                ok    == Restorable(files)
            IN  /\ out'.status = "Restored"
                /\ out'.n = Cardinality(ok)
                /\ \A i \in ok : wt'[files[i].path] = objects[files[i].object]
                /\ \A loc \in FileLocs :
                     loc \notin { files[i].path : i \in ok } => wt'[loc] = wt[loc]]_vars

\* the only record has two FileEntries, one object is gone from the store,
\* and a restore reported 1: the entry whose object is present is on disk
C8_Witness ==
    /\ out = Report("Restored", 1)
    /\ Cardinality(DOMAIN commits) = 1
    /\ \E c \in DOMAIN commits :
         LET files == commits[c].files IN
         /\ Len(files) = 2
         /\ Cardinality(Restorable(files)) = 1
         /\ \A i \in Restorable(files) : wt[files[i].path] = objects[files[i].object]

\* C9: before init, add, commit, restore and index halt with the
\* not-a-repository error and change nothing on disk.
C9_UninitializedHalts ==
    [][(~repo /\ (AnyAdd \/ AnyCommit \/ AnyRestore \/ cmd_show_index)) =>
         /\ out'.status = "NoRepo"
         /\ UNCHANGED <<repo, index, commits, objects, wt, dirs, copies, snapshots>>]_vars

\* a command was refused and there is still no repository
C9_Witness ==
    /\ out.status = "NoRepo"
    /\ ~repo /\ ~index.present /\ DOMAIN commits = {} /\ DOMAIN objects = {}

\* C10: init on an initialized repository changes neither the staging index,
\* the commit records nor the objects; on a directory without a repository it
\* creates the repository with an empty staging record.
C10_InitIdempotent ==
    [][cmd_init =>
         /\ repo'
         /\ index'.present
         /\ IF index.present THEN index' = index ELSE index'.staged = <<>>
         /\ UNCHANGED <<commits, objects, wt, dirs>>]_vars

\* init ran on a repository holding a staged entry, a commit and an object
C10_Witness ==
    /\ out.status = "Initialized"
    /\ index.staged # <<>>
    /\ DOMAIN commits # {}
    /\ DOMAIN objects # {}

\* C11: add of a path that does not exist reports FileNotFound and leaves
\* the staging index (an earlier entry for that path included), the commits,
\* the objects and the working tree as they were.
C11_StageAbsentFails ==
    [][\A p \in SpelledPaths :
         (cmd_add(p) /\ repo /\ ~path_exists(p, wt, dirs)) =>
            /\ out'.status = "FileNotFound"
            /\ UNCHANGED <<repo, index, commits, objects, wt, dirs>>]_vars

\* a was staged, then deleted, and an add was refused: the entry for a is
\* still in the index with the fingerprint it was staged with
C11_Witness ==
    /\ out.status = "FileNotFound"
    /\ wt[<<"a">>] = NoFile
    /\ index.staged = <<[path |-> <<"a">>, sha |-> sha1("hello")]>>

\* the record the latest commit wrote
LatestRecords ==
    { c \in DOMAIN commits :
        \A c2 \in DOMAIN commits : commits[c2].timestamp <= commits[c].timestamp }

\* C13: every FileEntry a commit records carries the fingerprint of the
\* file's bytes at commit time, and the object it names holds those bytes,
\* whatever fingerprint the staging entry held.
C13_CommitRevalidates ==
    [][\A m \in Messages, c \in CommitIds :
         (cmd_commit(m, c) /\ repo /\ read_index.staged # <<>>) =>
            LET files == commits'[c].files IN
            \A i \in 1..Len(files) :
               /\ files[i].sha = sha1(wt[files[i].path])
               /\ files[i].object \in DOMAIN objects'
               /\ objects'[files[i].object] = wt[files[i].path]]_vars

\* the latest commit read a staging entry for a path whose fingerprint differs
\* from the one in the record, and the object holds the bytes now on disk
C13_Witness ==
    /\ out.status = "Committed"
    /\ \E c \in LatestRecords :
         \E i \in 1..Len(commits[c].files), j \in 1..Len(consumed) :
            LET e == commits[c].files[i] IN
            /\ consumed[j].path = e.path
            /\ consumed[j].sha # e.sha
            /\ e.sha = sha1(wt[e.path])
            /\ objects[e.object] = wt[e.path]

\* C14: a commit skips the staged entries whose path no longer exists and
\* completes; the record lists exactly the staged entries whose path exists,
\* in staging order, one FileEntry each.
C14_CommitSkipsVanished ==
    [][\A m \in Messages, c \in CommitIds :
         (cmd_commit(m, c) /\ repo /\ read_index.staged # <<>>) =>
            LET kept  == Survivors(read_index.staged)
                files == commits'[c].files
            IN  /\ out' = Report("Committed", Len(kept))
                /\ Len(files) = Len(kept)
                /\ \A i \in 1..Len(kept) : files[i].path = kept[i].path]_vars

\* the latest commit read two staged entries and recorded one
C14_Witness ==
    /\ out = Report("Committed", 1)
    /\ Len(consumed) = 2
    /\ \E c \in LatestRecords : Len(commits[c].files) = 1

\* C15: a commit whose staged paths have all vanished still writes a record,
\* with an empty file list, copies no object, clears the staging index and
\* reports a commit, not empty staging.
C15_AllSkippedCommit ==
    [][\A m \in Messages, c \in CommitIds :
         (/\ cmd_commit(m, c) /\ repo
          /\ read_index.staged # <<>>
          /\ Survivors(read_index.staged) = <<>>) =>
            /\ out' = Report("Committed", 0)
            /\ c \in DOMAIN commits' /\ commits'[c].files = <<>>
            /\ commits'[c].timestamp = clock'
            /\ objects' = objects /\ copies' = copies
            /\ index' = [present |-> TRUE, staged |-> <<>>]]_vars

\* the latest commit read a non-empty staging list and wrote a record with
\* no FileEntry
C15_Witness ==
    /\ out = Report("Committed", 0)
    /\ consumed # <<>>
    /\ index.staged = <<>>
    /\ \E c \in LatestRecords : commits[c].files = <<>>

\* C16: an object, once in the store, keeps its bytes and is never removed
\* by init, add, commit or restore (nor by the user's edits of the working
\* tree): the store only grows.
C16_ObjectsWriteOnce ==
    [][\A o \in DOMAIN objects : o \in DOMAIN objects' /\ objects'[o] = objects[o]]_vars

\* both versions of a are in the store after two commits and a restore,
\* while a itself holds other bytes than one of them
C16_Witness ==
    /\ out.status = "Restored"
    /\ Cardinality(DOMAIN commits) = 2
    /\ \A bytes \in Contents :
         /\ ObjectName(sha1(bytes), "a") \in DOMAIN objects
         /\ objects[ObjectName(sha1(bytes), "a")] = bytes

\* C19: restore changes neither the staging index, the commit log nor the
\* object store; with an unknown id it reports CommitNotFound and writes
\* nothing; otherwise the only files it changes are those listed in the
\* commit whose object is present, and it removes no file and no directory.
C19_RestoreFrame ==
    [][\A c \in CommitIds :
         (cmd_restore(c) /\ repo) =>
            /\ UNCHANGED <<repo, index, commits, objects>>
            /\ IF c \notin DOMAIN commits
               THEN out'.status = "CommitNotFound" /\ UNCHANGED <<wt, dirs>>
               ELSE LET files == commits[c].files IN
                    /\ \A loc \in FileLocs :
                         wt'[loc] # wt[loc] =>
                            \E i \in Restorable(files) : files[i].path = loc
                    /\ \A loc \in FileLocs : wt[loc] # NoFile => wt'[loc] # NoFile
                    /\ dirs \subseteq dirs']_vars

\* a restore rewrote a from the only commit, which lists a alone; d/a, not
\* in that commit, is still there, and so is the staged entry
C19_Witness ==
    /\ out = Report("Restored", 1)
    /\ \E c \in DOMAIN commits :
         /\ DOMAIN commits = {c}
         /\ Len(commits[c].files) = 1
         /\ commits[c].files[1].path = <<"a">>
         /\ commits[c].files[1].object \in DOMAIN objects
         /\ wt[<<"a">>] = objects[commits[c].files[1].object]
    /\ wt[<<"d", "a">>] # NoFile
    /\ index.staged # <<>>

\* the base names of the file locations
BaseNames == { basename(loc) : loc \in FileLocs }

\* C20: every stored object's bytes hash to the fingerprint in its name,
\* every FileEntry has object = sha ++ "_" ++ baseName(path) and names an
\* object whose bytes hash to the entry's fingerprint, and the object a
\* commit records for a file holds the file's bytes at that commit, also when
\* the object was already in the store and was not copied.
C20_ObjectIntegrity ==
    /\ [](/\ \A o \in DOMAIN objects :
               \E bytes \in Contents, base \in BaseNames :
                  o = sha1(bytes) \o "_" \o base /\ objects[o] = bytes
          /\ \A c \in DOMAIN commits :
               \A i \in 1..Len(commits[c].files) :
                  LET e == commits[c].files[i] IN
                  /\ e.object = e.sha \o "_" \o basename(e.path)
                  /\ e.object \in DOMAIN objects
                  /\ sha1(objects[e.object]) = e.sha)
    /\ [][\A m \in Messages, c \in CommitIds :
            (cmd_commit(m, c) /\ out'.status = "Committed") =>
               \A i \in 1..Len(commits'[c].files) :
                  LET e == commits'[c].files[i] IN
                  /\ e.object \in DOMAIN objects'
                  /\ objects'[e.object] = wt[e.path]
                  /\ e.object \in DOMAIN objects => objects[e.object] = wt[e.path]]_vars

\* the latest commit recorded a file whose object was already stored: no
\* copy was made for it and the object holds the file's bytes
C20_Witness ==
    /\ out = Report("Committed", 1)
    /\ Cardinality(DOMAIN commits) = 2
    /\ copies = 1
    /\ \E c \in LatestRecords :
         LET e == commits[c].files[1] IN
         /\ objects[e.object] = wt[e.path]
         /\ sha1(wt[e.path]) = e.sha

\* every FileEntry of every commit record
AllEntries ==
    UNION { { commits[c].files[i] : i \in 1..Len(commits[c].files) } : c \in DOMAIN commits }

\* C17: two FileEntries name the same object exactly when they have the same
\* fingerprint and the same base name, whatever their directories; the store
\* holds one object per (fingerprint, base name) pair ever committed.
C17_DedupKeyIsPair ==
    /\ \A e1, e2 \in AllEntries :
         (e1.object = e2.object) <=>
            (e1.sha = e2.sha /\ basename(e1.path) = basename(e2.path))
    /\ \A e \in AllEntries : e.object \in DOMAIN objects
    /\ Cardinality(DOMAIN objects) =
         Cardinality({ <<sha1(s[3]), basename(s[2])>> : s \in snapshots })

\* one commit recorded a, d/a and b with identical content: a and d/a share
\* one object, b has its own, and the store holds exactly these two
C17_Witness ==
    \E c \in DOMAIN commits :
       LET files == commits[c].files IN
       /\ Len(files) = 3
       /\ \A i, j \in 1..3 : files[i].sha = files[j].sha
       /\ \E i, j \in 1..3 :
            /\ files[i].path = <<"a">> /\ files[j].path = <<"d", "a">>
            /\ files[i].object = files[j].object
       /\ \E i, j \in 1..3 :
            /\ files[i].path = <<"a">> /\ files[j].path = <<"b">>
            /\ files[i].object # files[j].object
       /\ Cardinality(DOMAIN objects) = 2

\* C12: the index is cleared only by a commit whose record is in the commit
\* log, and a commit killed between writing its record and clearing the
\* index leaves the record and the still populated index.
C12_RecordBeforeClear ==
    [][\A p \in Procs :
         LET me == procs[p] IN
         /\ c_clear(p) =>
              /\ me.commit_id \in DOMAIN commits
              /\ commits[me.commit_id] =
                    [id |-> me.commit_id, timestamp |-> me.timestamp,
                     message |-> me.message, files |-> me.files]
              /\ commits' = commits
         /\ (Crash(p) /\ me.pc = "clear") =>
              /\ me.commit_id \in DOMAIN commits'
              /\ commits' = commits
              /\ index' = index
              /\ index.staged = me.staged /\ me.staged # <<>>]_vars

\* a commit was killed after it wrote its record and before it cleared the
\* index: the record is in the log and the index holds what it had staged
C12_Witness ==
    \E p \in Procs :
       LET me == procs[p] IN
       /\ me.killed /\ me.pc = "clear"
       /\ me.commit_id \in DOMAIN commits
       /\ commits[me.commit_id].files # <<>>
       /\ index.staged = me.staged
       /\ index.staged # <<>>

\* C18: when the overlapping commits have all returned, every object in the
\* store holds the whole content whose fingerprint is in its name, also an
\* object that more than one of them copied.
C18_OverlappingWritesSafe ==
    (\A p \in Procs : procs[p].pc = "idle") =>
       \A o \in DOMAIN objects :
          \E bytes \in Contents, base \in BaseNames :
             o = ObjectName(sha1(bytes), base) /\ objects[o] = bytes

\* two commits have returned, the object was copied twice (both found it
\* absent) and the store holds it once, whole; both records name it
C18_Witness ==
    /\ \A p \in Procs : procs[p].pc = "idle"
    /\ copies = 2
    /\ DOMAIN objects = {ObjectName(sha1("hello"), "a")}
    /\ objects[ObjectName(sha1("hello"), "a")] = "hello"
    /\ DOMAIN commits = CommitIds
    /\ \A c \in DOMAIN commits :
         /\ Len(commits[c].files) = 1
         /\ commits[c].files[1].object = ObjectName(sha1("hello"), "a")

====
